---- MODULE Spec2Model ----
(***************************************************************************)
(* Model of the perceval backends Hello, Kitsune and MozillaClub: the      *)
(* fetch / replay-cache pipeline driven by the backends' Command classes.  *)
(*                                                                         *)
(* One behaviour is a sequence of Command invocations of one connector     *)
(* against one remote source and one on-disk cache.  Every action is one   *)
(* segment of code between two suspension points of the generators.        *)
(***************************************************************************)
EXTENDS Integers, Sequences, FiniteSets, TLC

VARIABLES
    connector,      \* which backend the Command belongs to
    src,            \* the remote source (environment), fixed in a behaviour
    args,           \* parsed_args of the running Command
    kwargs,         \* keyword arguments of the fetch / fetch_from_cache call
    backend,        \* SortingHat: url, origin and tag of the backend object
    cache,          \* backend.cache is set (a Cache object is attached)
    cache_items,    \* RawCache: pages durably stored, in flush order
    cache_backup,   \* RawCache: the backup snapshot, if any
    cache_queue,    \* Backend.cache_queue
    pc,             \* position of the Command / of the generator
    mode,           \* "fetch" or "fetch_from_cache" (what run() selected)
    error,          \* exception raised inside the generator or the loop body
    outcome,        \* how run() ended: "none", "ok" or the user-facing error
    recovered,      \* recover() was called by run()
    page,           \* KitsuneClient.get_questions: page
    next_uri,       \* KitsuneClient.get_questions: next_uri
    raw_questions,  \* the raw page last yielded by get_questions
    questions,      \* Kitsune.fetch / fetch_from_cache: questions still to yield
    offset,         \* kitsune_metadata: the running offset stamp
    hello_i,        \* HelloClient.get_hellos: loop variable i
    cells,          \* MozillaClub.fetch: cells still to process
    event_fields,   \* MozillaClub.fetch: column -> field name
    cache_pos,      \* fetch_from_cache: position in cache.retrieve()
    requests,       \* history: page params requested in this run
    received,       \* history: raw pages the source delivered in this run
    response,       \* history: status of the last answer of the source
    yielded,        \* history: envelopes the consumer received in this run
    flushed,        \* history: pages flushed in this run
    start_items,    \* history: durable contents when the generator started
    last,           \* history: summary of the previous Command invocation
    runs            \* number of Command invocations so far

vars == <<connector, src, args, kwargs, backend, cache, cache_items, cache_backup, cache_queue,
          pc, mode, error, outcome, recovered, page, next_uri, raw_questions,
          questions, offset, hello_i, cells, event_fields, cache_pos,
          requests, received, response, yielded, flushed, start_items,
          last, runs>>

kvars == <<page, next_uri, raw_questions, questions, offset>>
mvars == <<cells, event_fields>>
cvars == <<cache_items, cache_backup>>
hist  == <<requests, received, response, yielded, flushed, start_items>>
env   == <<connector, src, args, kwargs, backend, cache, mode, last, runs>>

----
\* Bounds of the model
MaxRuns == 2            \* Command invocations in one behaviour
MaxPages == 3           \* pages of the Kitsune source
MaxOffset == 61         \* largest --offset tried
MaxRows == 2            \* data rows of the spreadsheet
MaxIdentities == 2      \* entries of the uidentities map of the file
LastPageLen == 5        \* questions on a last page that is not full

\* Program constants
QUESTIONS_PER_PAGE == 20
DEFAULT_OFFSET == 0
_max_hellos == 10

None == <<>>

\* no page received yet
NoPage == [page |-> 0, missing |-> {}]

----
(***************************************************************************)
(* RawCache and CacheQueue (perceval/cache.py, perceval/backend.py).       *)
(***************************************************************************)
NoBackup == [exists |-> FALSE, items |-> <<>>]

\* Cache.backup(): snapshot of the durable contents
backup(items) == [exists |-> TRUE, items |-> items]

\* Cache.clean(): the stored pages and the backup are erased
clean_items == <<>>

\* Cache.recover(): the contents of the last backup come back; without a
\* backup the call fails with CacheError and changes nothing
recover_fails(bk) == ~bk.exists

\* a recover() that keeps the pages stored since the backup
recover_items_kept(items, bk) == items

recover_items(items, bk) == IF bk.exists THEN bk.items ELSE items

\* Backend._purge_cache_queue(): the queue is emptied
_purge_cache_queue(queue) == <<>>

\* Backend._push_cache_queue(item)
_push_cache_queue(queue, item) == Append(queue, item)

\* Backend._flush_cache_queue(): the queued pages go to the cache in order
\* and the queue is emptied; nothing happens without a cache
_flush_items(has_cache, items, queue) ==
    IF has_cache THEN items \o queue ELSE items

_flush_queue(has_cache, queue) ==
    IF has_cache THEN <<>> ELSE queue

\* a fetch() that goes on with the queue as the last fetch() left it
fetch_purge_skipped(queue) == queue

\* fetch(): "self._purge_cache_queue()", before the first page is asked for
fetch_purge(queue) == _purge_cache_queue(queue)

\* a fetch() that parses the page it received without queueing it
fetch_push_skipped(queue, raw) == queue

\* fetch(): "self._push_cache_queue(raw)", as soon as a raw page is received
fetch_push(queue, raw) == _push_cache_queue(queue, raw)

----
(***************************************************************************)
(* The Kitsune source: src.total questions, QUESTIONS_PER_PAGE per page,   *)
(* question k (0-based position) on page k \div QUESTIONS_PER_PAGE + 1.    *)
(***************************************************************************)
NumPages(total) ==
    IF total = 0 THEN 1
    ELSE (total + QUESTIONS_PER_PAGE - 1) \div QUESTIONS_PER_PAGE

Min(a, b) == IF a < b THEN a ELSE b

\* the question at position k, as the API serialises it
Question(k) == [id |-> k, updated |-> [iso |-> MaxPages * QUESTIONS_PER_PAGE - k]]

PageResults(total, p) ==
    LET lo == (p - 1) * QUESTIONS_PER_PAGE
        hi == Min(p * QUESTIONS_PER_PAGE, total)
    IN  [i \in 1..(IF hi > lo THEN hi - lo ELSE 0) |-> Question(lo + i - 1)]

\* https://support.mozilla.org/api/2/question/?page=2
NextUri(p) == IF p = 0 THEN None ELSE <<"/api/2/question/?", "page=", p>>

\* next_uri.split('page=')[1]
SplitPage(uri) ==
    LET i == CHOOSE j \in 1..Len(uri) : uri[j] = "page=" /\
                 \A k \in 1..(j - 1) : uri[k] # "page="
    IN  uri[i + 1]

\* json.loads of a raw Kitsune page: the keys the payload carries
JsonLoads(raw) ==
    LET full == [count   |-> src.total,
                 results |-> PageResults(src.total, raw.page),
                 next    |-> NextUri(src.nxt[raw.page])]
    IN  [k \in {"count", "results", "next"} \ raw.missing |-> full[k]]

\* ways the envelope of a page can be malformed
Malformations == {{}, {"count"}, {"results"}, {"next"}}

\* the body of an error answer: none of the keys of a page
ErrorBody(p) == [page |-> p, missing |-> {"count", "results", "next"}]

\* what requests.get can give for ?page=p: no answer at all, an error
\* status, or (when the page exists) the page
Responses(p) ==
    {[status |-> "ConnectionError", text |-> None],
     [status |-> "HTTPError", text |-> ErrorBody(p)]} \cup
    (IF p \in DOMAIN src.nxt
     THEN {[status |-> "ok", text |-> [page |-> p, missing |-> m]] :
              m \in Malformations}
     ELSE {})

\* a call without raise_for_status: the body of an error answer is returned
call_unchecked(resp) ==
    IF resp.status = "ConnectionError"
    THEN [raised |-> resp.status, text |-> None]
    ELSE [raised |-> "none", text |-> resp.text]

\* KitsuneClient.call: requests.get, raise_for_status, return req.text
call(resp) ==
    IF resp.status # "ok"
    THEN [raised |-> resp.status, text |-> None]
    ELSE [raised |-> "none", text |-> resp.text]

\* a client that counts pages itself instead of reading the indicator
NextPage_counted(pg, uri) == IF uri # None THEN pg + 1 ELSE pg

\* a client that never leaves its first page
NextPage_stuck(pg, uri) == pg

\* get_questions: the page to ask for
\*   if next_uri: page = next_uri.split('page=')[1]
NextPage(pg, uri) == IF uri # None THEN SplitPage(uri) ELSE pg

\* the test on next_uri inverted
more_questions_inverted(uri) == uri = None

\* get_questions: "if not next_uri: more_questions = False"
more_questions(uri) == uri # None

\* a try block that reads 'results' only
BadFormat_results_only(data) == "results" \notin DOMAIN data

\* Kitsune.fetch: the try block fails ("Bad JSON format")
BadFormat(data) == ~({"count", "results"} \subseteq DOMAIN data)

\* rounding to the nearest integer instead of truncating
PyIntDiv_round(a, b) == (a + b \div 2) \div b

\* int(offset / QUESTIONS_PER_PAGE): true division, then truncation
PyIntDiv(a, b) == IF a >= 0 THEN a \div b ELSE -((-a) \div b)

\* kitsune_metadata: "Normalize offset so it starts at page start"
NormalizeOffset(o) == PyIntDiv(o, QUESTIONS_PER_PAGE) * QUESTIONS_PER_PAGE

\* **kwargs of a call: no keyword argument, or offset=o
NoKwargs == [has_offset |-> FALSE, offset |-> 0]

Kwargs(o) == [has_offset |-> TRUE, offset |-> o]

\* kitsune_metadata: offset = kwargs.get('offset', DEFAULT_OFFSET)
kwargs_get_offset(kw) ==
    IF kw.has_offset THEN kw.offset ELSE DEFAULT_OFFSET

\* the page index used as the API's page number (which starts at 1)
FirstPage_zero_based(o) == IF o # 0 THEN PyIntDiv(o, QUESTIONS_PER_PAGE) ELSE 1

\* the page of the record before position offset
FirstPage_record_before(o) ==
    IF o # 0 THEN PyIntDiv(o - 1, QUESTIONS_PER_PAGE) + 1 ELSE 1

\* get_questions: the first page asked for
FirstPage(o) == IF o # 0 THEN PyIntDiv(o, QUESTIONS_PER_PAGE) + 1 ELSE 1

----
(***************************************************************************)
(* Metadata hooks and the metadata decorator.                              *)
(***************************************************************************)
IsRaw(item) == "raw" \in DOMAIN item

\* Kitsune.metadata_id / MozillaClub.metadata_id
metadata_id(conn, item) ==
    CASE conn = "kitsune" -> ToString(item.id)
      [] conn = "sortinghat" -> ToString(item.uuid)
      [] conn = "mozillaclub" -> <<item["Date of Event"], "_", item["Club Name"]>>
      [] OTHER -> item

\* Kitsune.metadata_updated_on / MozillaClub.metadata_updated_on /
\* hello.get_update_time
metadata_updated_on(conn, item) ==
    CASE conn = "kitsune" -> item.updated.iso
      [] conn = "sortinghat" -> item.updated.iso
      [] conn = "mozillaclub" -> item["Date of Event"]
      [] OTHER -> None

\* the hooks index the item by field name: a raw string is not an item
HooksFail(conn, item) == conn = "mozillaclub" /\ IsRaw(item)

\* SortingHat.metadata_category: 'uidentity'; the other backends have one
\* category each
metadata_category(conn) == IF conn = "sortinghat" THEN "uidentity" ELSE conn

\* backend.metadata: the envelope around a DomainItem
metadata(conn, item) ==
    [uuid       |-> <<conn, metadata_id(conn, item)>>,
     updated_on |-> metadata_updated_on(conn, item),
     category   |-> metadata_category(conn),
     data       |-> item]

\* a decorator that also derives the identifier from the running offset
kitsune_metadata_uuid_by_offset(item, off) ==
    [uuid       |-> <<metadata("kitsune", item).uuid, off>>,
     updated_on |-> metadata("kitsune", item).updated_on,
     category   |-> metadata("kitsune", item).category,
     data       |-> item,
     offset     |-> off]

\* kitsune_metadata on top of metadata: item['offset'] = offset
kitsune_metadata(item, off) ==
    [uuid       |-> metadata("kitsune", item).uuid,
     updated_on |-> metadata("kitsune", item).updated_on,
     category   |-> metadata("kitsune", item).category,
     data       |-> item,
     offset     |-> off]

----
(***************************************************************************)
(* Inputs.                                                                 *)
(***************************************************************************)
LinearNext(total) ==
    [p \in 1..NumPages(total) |-> IF p < NumPages(total) THEN p + 1 ELSE 0]

NoSource == [total |-> 0, nxt |-> <<0>>, sheet |-> <<>>]

\* the source whose next indicators follow the page order
KitsuneSource(total) == [total |-> total, nxt |-> LinearNext(total), sheet |-> <<>>]

\* a source of n pages: all full, or the last one holding LastPageLen
SourceTotals ==
    {0} \cup {n * QUESTIONS_PER_PAGE : n \in 1..MaxPages}
        \cup {(n - 1) * QUESTIONS_PER_PAGE + LastPageLen : n \in 1..MaxPages}

\* --offset values tried against every connector's cache
MidOffset == QUESTIONS_PER_PAGE + LastPageLen

\* parsed_args; only KitsuneCommand has --offset
Args(conn) ==
    [no_cache : BOOLEAN, clean_cache : BOOLEAN, fetch_cache : BOOLEAN,
     offset : IF conn = "kitsune" THEN {0, MidOffset} ELSE {0}]

\* parsed_args of a plain fetch with any offset
ArgsPages ==
    [no_cache : BOOLEAN, clean_cache : {FALSE}, fetch_cache : {FALSE},
     offset : 0..MaxOffset]

\* no SortingHat backend object
NoBackend == [url |-> "", origin |-> "", tag |-> ""]

NoRun == [mode |-> "none", outcome |-> "none", yielded |-> <<>>,
          fresh |-> FALSE, cache |-> FALSE, queue |-> <<>>]

InitCommon ==
    /\ args = [no_cache |-> FALSE, clean_cache |-> FALSE,
               fetch_cache |-> FALSE, offset |-> 0]
    /\ kwargs = NoKwargs
    /\ backend = NoBackend
    /\ cache = FALSE
    /\ cache_items = <<>>
    /\ cache_backup = NoBackup
    /\ cache_queue = <<>>
    /\ pc = "idle"
    /\ mode = "none"
    /\ error = "none"
    /\ outcome = "none"
    /\ recovered = FALSE
    /\ page = 1
    /\ next_uri = None
    /\ raw_questions = NoPage
    /\ questions = <<>>
    /\ offset = 0
    /\ hello_i = 1
    /\ cells = <<>>
    /\ event_fields = <<>>
    /\ cache_pos = 0
    /\ requests = <<>>
    /\ received = <<>>
    /\ response = "none"
    /\ yielded = <<>>
    /\ flushed = <<>>
    /\ start_items = <<>>
    /\ last = NoRun

----
(***************************************************************************)
(* The Command: __init__ and run().                                        *)
(***************************************************************************)
\* KitsuneCommand.__init__ / HelloCommand.__init__ / MozillaClubCommand.__init__
CommandInit(a) ==
    /\ pc = "idle"
    /\ runs < MaxRuns
    /\ runs' = runs + 1
    /\ args' = a
    /\ kwargs' = NoKwargs
    /\ last' = IF mode = "fetch" /\ outcome = "ok" /\ cache
               THEN [mode |-> mode, outcome |-> outcome, yielded |-> yielded,
                     fresh |-> (start_items = <<>>), cache |-> cache,
                     queue |-> <<>>]
               ELSE NoRun
    /\ cache' = ~a.no_cache
    /\ IF a.no_cache
       THEN UNCHANGED cvars
       ELSE IF a.clean_cache
            THEN cache_items' = clean_items /\ cache_backup' = NoBackup
            ELSE cache_items' = cache_items /\ cache_backup' = backup(cache_items)
    /\ cache_queue' = <<>>
    /\ pc' = "created"
    /\ mode' = "none"
    /\ error' = "none"
    /\ outcome' = "none"
    /\ recovered' = FALSE
    /\ page' = 1
    /\ next_uri' = None
    /\ raw_questions' = NoPage
    /\ questions' = <<>>
    /\ offset' = 0
    /\ hello_i' = 1
    /\ cells' = <<>>
    /\ event_fields' = <<>>
    /\ cache_pos' = 0
    /\ requests' = <<>>
    /\ received' = <<>>
    /\ response' = "none"
    /\ yielded' = <<>>
    /\ flushed' = <<>>
    /\ start_items' = <<>>
    /\ UNCHANGED <<connector, src, backend>>

\* run(): self.backend.fetch_from_cache(), self.backend.fetch() or, in
\* KitsuneCommand, self.backend.fetch(offset=self.offset)
run_kwargs(conn, a) ==
    IF conn = "kitsune" /\ ~a.fetch_cache THEN Kwargs(a.offset) ELSE NoKwargs

\* run(): the generator is created; its body runs at the first pull
Run ==
    /\ pc = "created"
    /\ mode' = IF args.fetch_cache THEN "fetch_from_cache" ELSE "fetch"
    /\ kwargs' = run_kwargs(connector, args)
    /\ pc' = "start"
    /\ start_items' = cache_items
    /\ UNCHANGED <<connector, src, args, backend, cache, cvars, cache_queue,
                   error, outcome, recovered, kvars, hello_i, mvars, cache_pos,
                   requests, received, response, yielded, flushed, last, runs>>

\* the loop of run() ended because the generator is exhausted
Finish ==
    /\ pc = "done"
    /\ pc' = "idle"
    /\ outcome' = "ok"
    /\ UNCHANGED <<env, cvars, cache_queue, error, recovered, kvars, hello_i,
                   mvars, cache_pos, hist>>

\* a run() whose "except IOError" misses the transport errors
IOErrors_plain == {"IOError"}

\* "except IOError": requests' ConnectionError is an IOError too
IOErrors == {"IOError", "ConnectionError"}

\* the except clauses of run()
Handle ==
    /\ pc = "failed"
    /\ pc' = "idle"
    /\ IF error = "HTTPError"
       THEN outcome' = "HTTPError" /\ UNCHANGED <<cvars, recovered>>
       ELSE IF error \in IOErrors
       THEN outcome' = "RuntimeError" /\ UNCHANGED <<cvars, recovered>>
       ELSE IF cache
       THEN /\ recovered' = TRUE
            /\ UNCHANGED cache_backup
            /\ cache_items' = recover_items(cache_items, cache_backup)
            /\ outcome' = IF recover_fails(cache_backup)
                          THEN "CacheError" ELSE "RuntimeError"
       ELSE outcome' = "RuntimeError" /\ UNCHANGED <<cvars, recovered>>
    /\ UNCHANGED <<env, cache_queue, error, kvars, hello_i, mvars, cache_pos,
                   hist>>

----
(***************************************************************************)
(* Kitsune.fetch over KitsuneClient.get_questions.                         *)
(***************************************************************************)
\* first pull: kitsune_metadata normalises the offset, fetch purges the
\* queue, get_questions picks the first page
KStart ==
    /\ pc = "start" /\ connector = "kitsune" /\ mode = "fetch"
    /\ offset' = NormalizeOffset(kwargs_get_offset(kwargs))
    /\ cache_queue' = fetch_purge(cache_queue)
    /\ page' = FirstPage(args.offset)
    /\ next_uri' = None
    /\ pc' = "k_request"
    /\ UNCHANGED <<env, cvars, error, outcome, recovered, raw_questions,
                   questions, hello_i, mvars, cache_pos, hist>>

\* get_questions asks for a page and yields it; fetch pushes and parses it
KRequest ==
    /\ pc = "k_request"
    /\ Len(requests) <= MaxPages
    /\ page' = NextPage(page, next_uri)
    /\ requests' = Append(requests, page')
    /\ \E resp \in Responses(page') :
         /\ response' = resp.status
         /\ IF call(resp).raised # "none"
            THEN /\ pc' = "failed" /\ error' = call(resp).raised
                 /\ UNCHANGED <<raw_questions, cache_queue, questions, received>>
            ELSE /\ raw_questions' = call(resp).text
                 /\ received' = Append(received, call(resp).text)
                 /\ cache_queue' = fetch_push(cache_queue, call(resp).text)
                 /\ IF BadFormat(JsonLoads(call(resp).text))
                    THEN /\ pc' = "failed" /\ error' = "ParseError"
                         /\ UNCHANGED questions
                    ELSE /\ questions' = JsonLoads(call(resp).text)["results"]
                         /\ pc' = "k_questions" /\ error' = error
    /\ UNCHANGED <<env, cvars, outcome, recovered, next_uri, offset, hello_i,
                   mvars, cache_pos, yielded, flushed, start_items>>

\* fetch yields the next question of the page; run() writes it
KYield ==
    /\ pc = "k_questions"
    /\ questions # <<>>
    /\ questions' = Tail(questions)
    /\ offset' = offset + 1
    /\ yielded' = Append(yielded, kitsune_metadata(Head(questions), offset))
    /\ \E written \in BOOLEAN :
         IF written THEN pc' = pc /\ error' = error
         ELSE pc' = "failed" /\ error' = "IOError"
    /\ UNCHANGED <<env, cvars, cache_queue, outcome, recovered, page, next_uri,
                   raw_questions, hello_i, mvars, cache_pos, requests, received,
                   response, flushed, start_items>>

\* a loop over the questions that ends one question early
page_done_early(qs) == Len(qs) <= 1

\* Kitsune.fetch: "for question in questions" has no question left
page_done(qs) == qs = <<>>

\* the page is exhausted: fetch flushes, get_questions reads 'next'
KEndPage ==
    /\ pc = "k_questions"
    /\ page_done(questions)
    /\ cache_items' = _flush_items(cache, cache_items, cache_queue)
    /\ cache_queue' = _flush_queue(cache, cache_queue)
    /\ flushed' = IF cache THEN flushed \o cache_queue ELSE flushed
    /\ IF "next" \in DOMAIN JsonLoads(raw_questions)
       THEN /\ next_uri' = JsonLoads(raw_questions)["next"]
            /\ error' = error
            /\ pc' = IF more_questions(next_uri') THEN "k_request" ELSE "done"
       ELSE /\ pc' = "failed" /\ error' = "KeyError"
            /\ UNCHANGED next_uri
    /\ UNCHANGED <<env, cache_backup, outcome, recovered, page, raw_questions,
                   questions, offset, hello_i, mvars, cache_pos, requests,
                   received, response, yielded, start_items>>

----
(***************************************************************************)
(* Hello.fetch over HelloClient.get_hellos.                                *)
(***************************************************************************)
\* '{"message": "Hello <name> from Perceval backed <i>"}'
HelloRaw(i) == [hello |-> i]

\* json.loads of a raw hello
JsonLoadsHello(raw) == [message |-> <<"Hello", raw.hello>>]

\* first pull: fetch purges the queue and creates the get_hellos generator
HStart ==
    /\ pc = "start" /\ connector = "hello" /\ mode = "fetch"
    /\ cache_queue' = fetch_purge(cache_queue)
    /\ hello_i' = 1
    /\ pc' = "h_next"
    /\ UNCHANGED <<env, cvars, error, outcome, recovered, kvars, mvars,
                   cache_pos, hist>>

\* one turn of the loop: push, flush, parse, yield; run() writes the hello
HNext ==
    /\ pc = "h_next"
    /\ hello_i < _max_hellos
    /\ hello_i' = hello_i + 1
    /\ cache_items' = _flush_items(cache, cache_items,
                                   fetch_push(cache_queue, HelloRaw(hello_i)))
    /\ cache_queue' = _flush_queue(cache,
                                   fetch_push(cache_queue, HelloRaw(hello_i)))
    /\ flushed' = IF cache
                  THEN flushed \o fetch_push(cache_queue, HelloRaw(hello_i))
                  ELSE flushed
    /\ yielded' = Append(yielded, metadata("hello", JsonLoadsHello(HelloRaw(hello_i))))
    /\ \E written \in BOOLEAN :
         IF written THEN pc' = pc /\ error' = error
         ELSE pc' = "failed" /\ error' = "IOError"
    /\ received' = Append(received, HelloRaw(hello_i))
    /\ UNCHANGED <<env, cache_backup, outcome, recovered, kvars, mvars,
                   cache_pos, requests, response, start_items>>

\* range(1, _max_hellos) is exhausted
HEnd ==
    /\ pc = "h_next"
    /\ hello_i >= _max_hellos
    /\ pc' = "done"
    /\ UNCHANGED <<env, cvars, cache_queue, error, outcome, recovered, kvars,
                   hello_i, mvars, cache_pos, hist>>

----
(***************************************************************************)
(* MozillaClub.fetch over MozillaClubClient.get_cells.                     *)
(***************************************************************************)
\* the raw text of the feed
CellsRaw == [raw |-> src.sheet]

\* json.loads(raw_cells)['feed']['entry']
JsonLoadsCells(raw) == raw.raw

\* the "column names" loop: pops the cells of row 1 into event_fields
RECURSIVE ColumnNames(_, _)
ColumnNames(cs, fields) ==
    IF cs = <<>>
    THEN [err |-> "IndexError", cells |-> cs, fields |-> fields]
    ELSE IF Head(cs).row > 1
    THEN [err |-> "none", cells |-> cs, fields |-> fields]
    ELSE ColumnNames(Tail(cs),
                     [c \in DOMAIN fields \cup {Head(cs).col} |->
                         IF c = Head(cs).col THEN Head(cs).t ELSE fields[c]])

\* "Fill the empy with all fields as None"
EmptyEvent(fields) ==
    [f \in {fields[i] : i \in 1..Cardinality(DOMAIN fields)} |-> None]

\* the inner "while True" loop that reads the cells of one event
RECURSIVE RowLoop(_, _, _, _)
RowLoop(cs, event, last_col, fields) ==
    IF cs = <<>>
    THEN [err |-> "IndexError", cells |-> cs, event |-> event]
    ELSE IF Head(cs).col < last_col
    THEN [err |-> "none", cells |-> cs, event |-> event]
    ELSE IF Head(cs).col \notin DOMAIN fields
    THEN [err |-> "KeyError", cells |-> Tail(cs), event |-> event]
    ELSE LET ev == [f \in DOMAIN event \cup {fields[Head(cs).col]} |->
                       IF f = fields[Head(cs).col] THEN Head(cs).t ELSE event[f]]
         IN  IF Head(cs).col >= Cardinality(DOMAIN fields)
             THEN [err |-> "none", cells |-> Tail(cs), event |-> ev]
             ELSE RowLoop(Tail(cs), ev, Head(cs).col, fields)

\* one turn of "while cells": the event built and the cells left
BuildEvent(cs, fields) ==
    IF \E i \in 1..Cardinality(DOMAIN fields) : i \notin DOMAIN fields
    THEN [err |-> "KeyError", cells |-> cs, event |-> <<>>]
    ELSE RowLoop(cs, EmptyEvent(fields), 0, fields)

\* "Wrong event data"
WrongEvent(event) ==
    event["Date of Event"] = None \/ event["Club Name"] = None

\* first pull, up to the row loop: purge, get_cells, push, flush, parse,
\* column names
MStart ==
    /\ pc = "start" /\ connector = "mozillaclub" /\ mode = "fetch"
    /\ requests' = Append(requests, 1)
    /\ \E status \in {"ok", "HTTPError", "ConnectionError"} :
         /\ response' = status
         /\ IF status # "ok"
            THEN /\ pc' = "failed" /\ error' = status
                 /\ cache_queue' = fetch_purge(cache_queue)
                 /\ UNCHANGED <<cvars, flushed, mvars, received>>
            ELSE /\ received' = Append(received, CellsRaw)
                 /\ cache_items' = _flush_items(cache, cache_items,
                        fetch_push(fetch_purge(cache_queue), CellsRaw))
                 /\ cache_queue' = _flush_queue(cache,
                        fetch_push(fetch_purge(cache_queue), CellsRaw))
                 /\ flushed' = IF cache
                               THEN flushed \o fetch_push(
                                       fetch_purge(cache_queue), CellsRaw)
                               ELSE flushed
                 /\ UNCHANGED cache_backup
                 /\ LET h == ColumnNames(JsonLoadsCells(CellsRaw), <<>>) IN
                    /\ cells' = h.cells
                    /\ event_fields' = h.fields
                    /\ IF h.err = "none"
                       THEN pc' = "m_rows" /\ error' = error
                       ELSE pc' = "failed" /\ error' = h.err
    /\ UNCHANGED <<env, outcome, recovered, kvars, hello_i, cache_pos, yielded,
                   start_items>>

\* one turn of "while cells": build an event, skip it or yield it
MRow ==
    /\ pc = "m_rows"
    /\ cells # <<>>
    /\ LET b == BuildEvent(cells, event_fields) IN
       /\ cells' = b.cells
       /\ IF b.err # "none"
          THEN pc' = "failed" /\ error' = b.err /\ UNCHANGED yielded
          ELSE IF {"Date of Event", "Club Name"} \subseteq DOMAIN b.event
          THEN IF WrongEvent(b.event)
               THEN UNCHANGED <<pc, error, yielded>>
               ELSE /\ yielded' = Append(yielded, metadata("mozillaclub", b.event))
                    /\ \E written \in BOOLEAN :
                         IF written THEN pc' = pc /\ error' = error
                         ELSE pc' = "failed" /\ error' = "IOError"
          ELSE pc' = "failed" /\ error' = "KeyError" /\ UNCHANGED yielded
    /\ UNCHANGED <<env, cvars, cache_queue, outcome, recovered, kvars, hello_i,
                   event_fields, cache_pos, requests, received, response,
                   flushed, start_items>>

\* no cells are left
MEnd ==
    /\ pc = "m_rows"
    /\ cells = <<>>
    /\ pc' = "done"
    /\ UNCHANGED <<env, cvars, cache_queue, error, outcome, recovered, kvars,
                   hello_i, mvars, cache_pos, hist>>

----
(***************************************************************************)
(* fetch_from_cache of the three backends.                                 *)
(***************************************************************************)
\* what one cached item gives the inner loop
\*   Kitsune:     json.loads(items)['results']
\*   Hello:       json.loads(raw_hello)
\*   MozillaClub: the cached item itself
\* a replay that walks the questions of a page from its end
CachedItems_reversed(conn, raw) ==
    CASE conn = "kitsune" ->
            [i \in 1..Len(JsonLoads(raw)["results"]) |->
                JsonLoads(raw)["results"][Len(JsonLoads(raw)["results"]) + 1 - i]]
      [] conn = "hello" -> <<JsonLoadsHello(raw)>>
      [] OTHER -> <<raw>>

CachedItems(conn, raw) ==
    CASE conn = "kitsune" -> JsonLoads(raw)["results"]
      [] conn = "hello" -> <<JsonLoadsHello(raw)>>
      [] OTHER -> <<raw>>

\* a replay that goes to the stored pages without looking at self.cache
cache_missing_unchecked(c) == FALSE

\* fetch_from_cache: "if not self.cache: raise CacheError"
cache_missing(c) == ~c

\* first pull: the cache check, cache.retrieve()
CStart ==
    /\ pc = "start" /\ mode = "fetch_from_cache"
    /\ offset' = NormalizeOffset(kwargs_get_offset(kwargs))
    /\ cache_pos' = 0
    /\ questions' = <<>>
    /\ IF cache_missing(cache)
       THEN pc' = "failed" /\ error' = "CacheError"
       ELSE pc' = "c_items" /\ error' = error
    /\ UNCHANGED <<env, cvars, cache_queue, outcome, recovered, page, next_uri,
                   raw_questions, hello_i, mvars, hist>>

\* the next item of cache.retrieve()
CNext ==
    /\ pc = "c_items"
    /\ questions = <<>>
    /\ cache_pos < Len(cache_items)
    /\ cache_pos' = cache_pos + 1
    /\ IF connector = "kitsune" /\
          "results" \notin DOMAIN JsonLoads(cache_items[cache_pos + 1])
       THEN pc' = "failed" /\ error' = "KeyError" /\ UNCHANGED questions
       ELSE /\ questions' = CachedItems(connector, cache_items[cache_pos + 1])
            /\ UNCHANGED <<pc, error>>
    /\ UNCHANGED <<env, cvars, cache_queue, outcome, recovered, page, next_uri,
                   raw_questions, offset, hello_i, mvars, hist>>

\* the generator yields an item through the metadata decorators
CYield ==
    /\ pc = "c_items"
    /\ questions # <<>>
    /\ questions' = Tail(questions)
    /\ IF HooksFail(connector, Head(questions))
       THEN pc' = "failed" /\ error' = "TypeError" /\ UNCHANGED <<yielded, offset>>
       ELSE /\ offset' = offset + 1
            /\ yielded' = Append(yielded,
                            IF connector = "kitsune"
                            THEN kitsune_metadata(Head(questions), offset)
                            ELSE metadata(connector, Head(questions)))
            /\ \E written \in BOOLEAN :
                 IF written THEN pc' = pc /\ error' = error
                 ELSE pc' = "failed" /\ error' = "IOError"
    /\ UNCHANGED <<env, cvars, cache_queue, outcome, recovered, page, next_uri,
                   raw_questions, hello_i, mvars, cache_pos, requests, received,
                   response, flushed, start_items>>

\* cache.retrieve() is exhausted
CEnd ==
    /\ pc = "c_items"
    /\ questions = <<>>
    /\ cache_pos >= Len(cache_items)
    /\ pc' = "done"
    /\ UNCHANGED <<env, cvars, cache_queue, error, outcome, recovered, kvars,
                   hello_i, mvars, cache_pos, hist>>

----
(***************************************************************************)
(* The backend used as a library: one backend object, several calls of     *)
(* fetch() and fetch_from_cache() on it.                                   *)
(***************************************************************************)
\* Kitsune(url, cache=c) / Hello(name, cache=c) / MozillaClub(url, cache=c)
NewBackend(c) ==
    /\ pc = "idle" /\ runs = 0
    /\ cache' = c
    /\ pc' = "created"
    /\ UNCHANGED <<connector, src, args, kwargs, backend, cvars, cache_queue,
                   mode, error, outcome, recovered, kvars, hello_i, mvars,
                   cache_pos, hist, last, runs>>

\* a call of fetch() or fetch_from_cache() returns a new generator; the
\* generator of the call before, ended or not, is pulled no more
NewGenerator ==
    /\ pc # "idle"
    /\ runs < MaxRuns
    /\ runs' = runs + 1
    /\ last' = [NoRun EXCEPT !.mode = mode, !.cache = cache,
                              !.queue = cache_queue]
    /\ pc' = "start"
    /\ start_items' = cache_items
    /\ error' = "none"
    /\ page' = 1
    /\ next_uri' = None
    /\ raw_questions' = NoPage
    /\ questions' = <<>>
    /\ offset' = 0
    /\ hello_i' = 1
    /\ cells' = <<>>
    /\ event_fields' = <<>>
    /\ cache_pos' = 0
    /\ requests' = <<>>
    /\ received' = <<>>
    /\ response' = "none"
    /\ yielded' = <<>>
    /\ flushed' = <<>>
    /\ UNCHANGED <<connector, src, backend, cache, cvars, cache_queue,
                   outcome, recovered>>

\* backend.fetch(offset=o)
Fetch(o) ==
    /\ NewGenerator
    /\ mode' = "fetch"
    /\ args' = [args EXCEPT !.offset = o]
    /\ kwargs' = Kwargs(o)

\* backend.fetch(o): the offset is passed by position
FetchPositional(o) ==
    /\ connector = "kitsune"
    /\ NewGenerator
    /\ mode' = "fetch"
    /\ args' = [args EXCEPT !.offset = o]
    /\ kwargs' = NoKwargs

\* backend.fetch_from_cache()
FetchFromCache ==
    /\ NewGenerator
    /\ mode' = "fetch_from_cache"
    /\ args' = [args EXCEPT !.offset = DEFAULT_OFFSET]
    /\ kwargs' = NoKwargs

----
(***************************************************************************)
(* SortingHat: the backend, its client and its Command.                    *)
(***************************************************************************)
\* Python values of the tag argument: None or a string
PyNone == [none |-> TRUE, s |-> ""]

PyStr(str) == [none |-> FALSE, s |-> str]

\* truth value of a tag: None and '' are false
Truthy(v) == ~v.none /\ v.s # ""

\* Backend.__init__(origin, tag=tag, cache=cache)
Backend_init(origin, tag) ==
    [origin |-> origin, tag |-> IF Truthy(tag) THEN tag.s ELSE origin]

\* a constructor that does not hand the tag on
SortingHat_init_without_tag(url, tag) ==
    [url    |-> url,
     origin |-> Backend_init(url, PyNone).origin,
     tag    |-> Backend_init(url, PyNone).tag]

\* SortingHat.__init__(url, tag, cache): origin = url
SortingHat_init(url, tag) ==
    [url    |-> url,
     origin |-> Backend_init(url, tag).origin,
     tag    |-> Backend_init(url, tag).tag]

\* SortingHat.has_caching / SortingHat.has_resuming
has_caching == FALSE

has_resuming == FALSE

\* a command that builds its cache as the other commands do
sortinghat_cache_from_args(a) == TRUE

\* SortingHatCommand.__init__: SortingHat(self.url, tag=self.tag, cache=None)
sortinghat_cache(a) == FALSE

\* json.load(f): the keys the file carries
JsonLoadFile(file) ==
    [k \in {"time", "uidentities"} \ file.missing |-> file[k]]

\* an item that keeps the 'updated' it came with
stamp_updated_if_absent(item, updated) ==
    [f \in DOMAIN item \cup {"updated"} |->
        IF f \in DOMAIN item THEN item[f] ELSE updated]

\* get_uidentities: item['updated'] = updated
stamp_updated(item, updated) ==
    [f \in DOMAIN item \cup {"updated"} |->
        IF f = "updated" THEN updated ELSE item[f]]

\* parsed_args of SortingHatCommand
SHArgs(urls, tags) == [url : urls, tag : tags]

\* no Command object: the backend is used directly
NoArgs == [url |-> "", tag |-> PyNone]

\* SortingHatCommand.__init__
SHCommandInit(a) ==
    /\ pc = "idle"
    /\ runs < MaxRuns
    /\ runs' = runs + 1
    /\ args' = a
    /\ backend' = SortingHat_init(a.url, a.tag)
    /\ cache' = sortinghat_cache(a)
    /\ cache_queue' = <<>>
    /\ last' = NoRun
    /\ pc' = "created"
    /\ mode' = "none"
    /\ error' = "none"
    /\ outcome' = "none"
    /\ recovered' = FALSE
    /\ questions' = <<>>
    /\ yielded' = <<>>
    /\ start_items' = cache_items
    /\ UNCHANGED <<connector, src, kwargs, cvars, page, next_uri,
                   raw_questions, offset, hello_i, mvars, cache_pos, requests,
                   received, response, flushed>>

\* SortingHat(url, tag=tag, cache=c) built by a caller of the library
SHNewBackend(u, t, c) ==
    /\ pc = "idle"
    /\ runs < MaxRuns
    /\ args' = NoArgs
    /\ backend' = SortingHat_init(u, t)
    /\ cache' = c
    /\ cache_queue' = <<>>
    /\ pc' = "created"
    /\ mode' = "none"
    /\ error' = "none"
    /\ outcome' = "none"
    /\ UNCHANGED <<connector, src, kwargs, cvars, recovered, kvars, hello_i,
                   mvars, cache_pos, hist, last, runs>>

\* run(): items = self.backend.fetch()
SHRun ==
    /\ pc = "created" /\ args # NoArgs
    /\ mode' = "fetch"
    /\ pc' = "start"
    /\ UNCHANGED <<connector, src, args, kwargs, backend, cache, cvars,
                   cache_queue, error, outcome, recovered, kvars, hello_i, mvars,
                   cache_pos, hist, last, runs>>

\* backend.fetch() called by a caller of the library
SHFetch ==
    /\ args = NoArgs
    /\ NewGenerator
    /\ mode' = "fetch"
    /\ UNCHANGED <<args, kwargs>>

\* first pull: open(self.url), json.load, data['time'], data['uidentities']
SHOpen ==
    /\ pc = "start" /\ connector = "sortinghat" /\ mode = "fetch"
    /\ IF backend.url # src.file.path
       THEN pc' = "failed" /\ error' = "IOError" /\ UNCHANGED questions
       ELSE IF {"time", "uidentities"} \subseteq DOMAIN JsonLoadFile(src.file)
       THEN /\ questions' = JsonLoadFile(src.file)["uidentities"]
            /\ pc' = "s_items" /\ error' = error
       ELSE pc' = "failed" /\ error' = "KeyError" /\ UNCHANGED questions
    /\ UNCHANGED <<env, cvars, cache_queue, outcome, recovered, page, next_uri,
                   raw_questions, offset, hello_i, mvars, cache_pos, hist>>

\* one turn of "for uidentity in uidentities.keys()": the item is stamped
\* and yielded through the metadata decorator; run() writes it
SHNext ==
    /\ pc = "s_items"
    /\ questions # <<>>
    /\ questions' = Tail(questions)
    /\ yielded' = Append(yielded,
                      metadata("sortinghat",
                               stamp_updated(Head(questions).value,
                                             JsonLoadFile(src.file)["time"])))
    /\ \E written \in BOOLEAN :
         IF written THEN pc' = pc /\ error' = error
         ELSE pc' = "failed" /\ error' = "IOError"
    /\ UNCHANGED <<env, cvars, cache_queue, outcome, recovered, page, next_uri,
                   raw_questions, offset, hello_i, mvars, cache_pos, requests,
                   received, response, flushed, start_items>>

\* the keys are exhausted
SHEnd ==
    /\ pc = "s_items"
    /\ questions = <<>>
    /\ pc' = "done"
    /\ UNCHANGED <<env, cvars, cache_queue, error, outcome, recovered, kvars,
                   hello_i, mvars, cache_pos, hist>>

\* SortingHatCommand.run: the loop ended
SHFinish == args # NoArgs /\ Finish

\* SortingHatCommand.run: the except clauses
SHHandle == args # NoArgs /\ Handle

----
(***************************************************************************)
(* Specifications.                                                         *)
(***************************************************************************)
Connectors == {"hello", "kitsune", "mozillaclub"}

\* the spreadsheet feed: row 1 holds the column names, a data row holds
\* the cells the sheet has a value for
Header == <<[row |-> 1, col |-> 1, t |-> "Status"],
            [row |-> 1, col |-> 2, t |-> "Date of Event"],
            [row |-> 1, col |-> 3, t |-> "Club Name"]>>

RowCells(r, cols) ==
    LET c1 == IF 1 \in cols THEN <<[row |-> r, col |-> 1, t |-> <<r, 1>>]>> ELSE <<>>
        c2 == IF 2 \in cols THEN <<[row |-> r, col |-> 2, t |-> <<r, 2>>]>> ELSE <<>>
        c3 == IF 3 \in cols THEN <<[row |-> r, col |-> 3, t |-> <<r, 3>>]>> ELSE <<>>
    IN  c1 \o c2 \o c3

RECURSIVE SheetCells(_, _)
SheetCells(layout, r) ==
    IF r > Len(layout) THEN <<>>
    ELSE RowCells(r + 1, layout[r]) \o SheetCells(layout, r + 1)

Layouts ==
    UNION {[1..n -> (SUBSET (1..3)) \ {{}}] : n \in 0..MaxRows}

Sheets == {Header \o SheetCells(l, 1) : l \in Layouts}

Sources(conn) ==
    CASE conn = "kitsune" ->
            {KitsuneSource((MaxPages - 1) * QUESTIONS_PER_PAGE + LastPageLen)}
      [] conn = "mozillaclub" ->
            {[total |-> 0, nxt |-> <<0>>, sheet |-> s] : s \in Sheets}
      [] OTHER -> {NoSource}

\* every next map over 1..MaxPages pages, cycles included; the questions
\* are all on page 1 and the other pages have empty results
ChainSources ==
    UNION {{[total |-> LastPageLen, nxt |-> f, sheet |-> <<>>] :
               f \in [1..n -> 0..n]} : n \in 1..MaxPages}

\* following the next indicators from page p reaches the last page
RECURSIVE ChainEnds(_, _, _)
ChainEnds(nxt, p, fuel) ==
    IF p \notin DOMAIN nxt THEN TRUE
    ELSE IF fuel = 0 THEN FALSE
    ELSE ChainEnds(nxt, nxt[p], fuel - 1)

\* all connectors, a few Command invocations one after the other
Init ==
    /\ InitCommon
    /\ connector \in Connectors
    /\ src \in Sources(connector)
    /\ runs = 0

Next ==
    \/ \E a \in Args(connector) : CommandInit(a)
    \/ Run
    \/ Finish
    \/ Handle
    \/ KStart
    \/ KRequest
    \/ KYield
    \/ KEndPage
    \/ HStart
    \/ HNext
    \/ HEnd
    \/ MStart
    \/ MRow
    \/ MEnd
    \/ CStart
    \/ CNext
    \/ CYield
    \/ CEnd

Spec == Init /\ [][Next]_vars

\* one Kitsune fetch, any offset, sources of 1..MaxPages pages
InitPages ==
    /\ InitCommon
    /\ connector = "kitsune"
    /\ src \in {KitsuneSource(t) : t \in SourceTotals}
    /\ runs = MaxRuns - 1

NextPages ==
    \/ \E a \in ArgsPages : CommandInit(a)
    \/ Run
    \/ Finish
    \/ Handle
    \/ KStart
    \/ KRequest
    \/ KYield
    \/ KEndPage

SpecPages == InitPages /\ [][NextPages]_vars

\* one Kitsune fetch against sources with arbitrary next indicators; run()
\* pulls until the generator ends, so no enabled step waits forever
InitChain ==
    /\ InitCommon
    /\ connector = "kitsune"
    /\ src \in ChainSources
    /\ runs = MaxRuns - 1

ArgsChain ==
    [no_cache : {FALSE}, clean_cache : {FALSE}, fetch_cache : {FALSE},
     offset : {0, MidOffset}]

NextChain ==
    \/ \E a \in ArgsChain : CommandInit(a)
    \/ Run
    \/ Finish
    \/ Handle
    \/ KStart
    \/ KRequest
    \/ KYield
    \/ KEndPage

SpecChain == InitChain /\ [][NextChain]_vars /\ WF_vars(NextChain)

\* one backend object of any connector, with or without a cache, and a few
\* calls of fetch() / fetch_from_cache() on it, each generator pulled as far
\* as its consumer likes
InitCollector ==
    /\ InitCommon
    /\ connector \in Connectors
    /\ src \in Sources(connector)
    /\ runs = 0

Offsets(conn) == IF conn = "kitsune" THEN {0, MidOffset} ELSE {0}

NextCollector ==
    \/ \E c \in BOOLEAN : NewBackend(c)
    \/ \E o \in Offsets(connector) : Fetch(o)
    \/ \E o \in Offsets(connector) : FetchPositional(o)
    \/ FetchFromCache
    \/ KStart
    \/ KRequest
    \/ KYield
    \/ KEndPage
    \/ HStart
    \/ HNext
    \/ HEnd
    \/ MStart
    \/ MRow
    \/ MEnd
    \/ CStart
    \/ CNext
    \/ CYield
    \/ CEnd

SpecCollector == InitCollector /\ [][NextCollector]_vars

\* the exported file: 'time' and the 'uidentities' map, whose entries come
\* in the order of the file; a uidentity may carry an 'updated' of its own
UidentityKeys == 1..MaxIdentities

KeyOrders ==
    {q \in UNION {[1..n -> UidentityKeys] : n \in 0..MaxIdentities} :
        \A i, j \in DOMAIN q : i # j => q[i] # q[j]}

Uidentity(k, own) ==
    IF own THEN [uuid |-> k, updated |-> [iso |-> 3]] ELSE [uuid |-> k]

FilePath == "uidentities.json"

Files ==
    {[path        |-> FilePath,
      missing     |-> m,
      time        |-> [iso |-> 7],
      uidentities |-> [i \in DOMAIN q |->
                          [key |-> q[i], value |-> Uidentity(q[i], q[i] \in own)]]] :
        q \in KeyOrders, own \in SUBSET UidentityKeys,
        m \in {{}, {"time"}, {"uidentities"}}}

SHSources ==
    {[total |-> 0, nxt |-> <<0>>, sheet |-> <<>>, file |-> f] : f \in Files}

\* the url of the file, or of no file
Urls == {FilePath, "nofile.json"}

Tags == {PyNone, PyStr(""), PyStr("test")}

\* pages a cache directory may hold when a backend is built on it
StoredPages == {<<>>, <<HelloRaw(1)>>}

\* SortingHatCommand runs and direct uses of a SortingHat backend, built
\* with or without a cache
InitSortingHat ==
    /\ connector = "sortinghat"
    /\ src \in SHSources
    /\ args = NoArgs
    /\ kwargs = NoKwargs
    /\ backend = NoBackend
    /\ cache = FALSE
    /\ cache_items \in StoredPages
    /\ cache_backup \in {NoBackup, backup(cache_items)}
    /\ cache_queue = <<>>
    /\ pc = "idle"
    /\ mode = "none"
    /\ error = "none"
    /\ outcome = "none"
    /\ recovered = FALSE
    /\ page = 1
    /\ next_uri = None
    /\ raw_questions = NoPage
    /\ questions = <<>>
    /\ offset = 0
    /\ hello_i = 1
    /\ cells = <<>>
    /\ event_fields = <<>>
    /\ cache_pos = 0
    /\ requests = <<>>
    /\ received = <<>>
    /\ response = "none"
    /\ yielded = <<>>
    /\ flushed = <<>>
    /\ start_items = cache_items
    /\ last = NoRun
    /\ runs = 0

NextSortingHat ==
    \/ \E a \in SHArgs(Urls, Tags) : SHCommandInit(a)
    \/ \E u \in Urls, t \in Tags, c \in BOOLEAN : SHNewBackend(u, t, c)
    \/ SHRun
    \/ SHFetch
    \/ SHOpen
    \/ SHNext
    \/ SHEnd
    \/ SHFinish
    \/ SHHandle

SpecSortingHat == InitSortingHat /\ [][NextSortingHat]_vars

----
(***************************************************************************)
(* Properties.                                                             *)
(***************************************************************************)
\* run() has returned or raised
Ended == pc = "idle" /\ outcome # "none"

\* a fetch through a Command with a cache ended in an error
FailedFetch ==
    Ended /\ mode = "fetch" /\ cache /\ outcome # "ok"

\* the failures of the error taxonomy: transport, parse and I/O errors
TaxonomyErrors == {"HTTPError", "ConnectionError", "ParseError", "IOError"}

\* the fields of an envelope that a replay has to reproduce
EnvelopeCore(e) == <<e.uuid, e.updated_on, e.category, e.data>>

Cores(envelopes) == [i \in 1..Len(envelopes) |-> EnvelopeCore(envelopes[i])]

\* a replay ended, the run before it was a complete fetch into an empty
\* cache, and nothing touched the cache in between
ReplayedFetch ==
    /\ Ended /\ mode = "fetch_from_cache" /\ cache /\ ~args.clean_cache
    /\ last.mode = "fetch" /\ last.outcome = "ok" /\ last.fresh
    /\ error # "IOError"

\* C1: replay fidelity.  After a fetch() that completed normally and
\* populated the cache, fetch_from_cache() on the unmodified cache completes
\* and yields the same number of envelopes, in the same order, identical in
\* uuid, updated_on, category and data -- for Hello, Kitsune and MozillaClub.
C1_ReplayFidelity ==
    ReplayedFetch => outcome = "ok" /\ Cores(yielded) = Cores(last.yielded)

\* C2: whatever error ends run() while a cache is attached, recover() was
\* called and the durable contents equal those of the last backup().
C2_RecoverOnAnyError ==
    (Ended /\ outcome # "ok" /\ cache) =>
        (recovered /\ cache_backup.exists /\ cache_items = cache_backup.items)

\* C3 as stated: after a failure between flush N and flush N+1 and run()'s
\* recovery, the cache holds the contents of the backup point followed by
\* the N flushed pages.
C3_ThroughFlushN ==
    (FailedFetch /\ error \in TaxonomyErrors) =>
        cache_items = start_items \o flushed

\* C3 amended: the N flushed pages are the first N pages received, whole
\* and in order, the pages only pushed are in the queue and not durable;
\* after an HTTPError, ConnectionError or IOError, or without a backup, the
\* cache holds the backup-point contents followed by the N flushed pages;
\* after any other error recover() leaves exactly the backup-point contents.
C3_Durability ==
    FailedFetch =>
        /\ flushed = SubSeq(received, 1, Len(flushed))
        /\ cache_queue = SubSeq(received, Len(flushed) + 1, Len(received))
        /\ cache_backup.exists => cache_backup.items = start_items
        /\ IF error \in {"HTTPError", "ConnectionError", "IOError"}
              \/ ~cache_backup.exists
           THEN cache_items = start_items \o flushed
           ELSE cache_items = start_items

\* a parse failure on a later page: one page flushed and rolled back, the
\* failing page still queued
C3_Witness ==
    /\ FailedFetch /\ error = "ParseError" /\ recovered
    /\ Len(flushed) = 1 /\ Len(cache_queue) = 1
    /\ cache_items = start_items

----
\* the ids of the questions in a sequence of envelopes
Ids(envelopes) == [i \in 1..Len(envelopes) |-> envelopes[i].data.id]

\* the page numbers of a sequence of raw pages
PagesOf(pages) == [i \in 1..Len(pages) |-> pages[i].page]

\* a Kitsune fetch ran to its normal end
CompleteFetch ==
    Ended /\ connector = "kitsune" /\ mode = "fetch" /\ outcome = "ok"

\* C4: with no offset, a fetch over a source of P pages whose last page
\* alone has no next indicator yields every question once, in the source's
\* order, asks for the pages 1..P in order and flushes one raw page per
\* page, in page order; while it runs, what it has yielded, asked for and
\* flushed is a prefix of that.
C4_AllPagesInOrder ==
    /\ (connector = "kitsune" /\ mode = "fetch" /\ args.offset = 0) =>
          /\ Ids(yielded) = [i \in 1..Len(yielded) |-> i - 1]
          /\ requests = [i \in 1..Len(requests) |-> i]
          /\ PagesOf(flushed) = [i \in 1..Len(flushed) |-> i]
    /\ (CompleteFetch /\ args.offset = 0) =>
          /\ Len(yielded) = src.total
          /\ Len(requests) = NumPages(src.total)
          /\ cache => /\ Len(flushed) = NumPages(src.total)
                      /\ cache_items = start_items \o flushed
                      /\ cache_queue = <<>>

\* 3 pages of 20 questions: 60 envelopes, 3 flushes
C4_Witness ==
    /\ CompleteFetch /\ args.offset = 0 /\ cache
    /\ src.total = 3 * QUESTIONS_PER_PAGE
    /\ Len(yielded) = 60 /\ Len(flushed) = 3

TransportErrors == {"HTTPError", "ConnectionError"}

\* the source failed to answer a page request of this Kitsune fetch
RequestFailed ==
    connector = "kitsune" /\ mode = "fetch" /\ response \in TransportErrors

\* C5: a failed page request ends the sequence with that very error (the
\* run never ends normally), the request is not repeated, no other page is
\* asked for afterwards and the items already yielded stay as they were.
C5_ErrorPropagates ==
    /\ [](RequestFailed =>
            pc \in {"failed", "idle"} /\ error = response /\ outcome # "ok")
    /\ [][(pc = "k_request" /\ response' \in TransportErrors) =>
            (yielded' = yielded /\ Len(requests') = Len(requests) + 1)]_vars
    /\ [][(RequestFailed /\ runs' = runs) =>
            (requests' = requests /\ yielded' = yielded)]_vars

\* the second page request failed after a whole page had been yielded
C5_Witness ==
    /\ RequestFailed /\ Ended /\ error = "HTTPError"
    /\ Len(requests) = 2 /\ Len(yielded) = QUESTIONS_PER_PAGE

\* C6: the first page pulled is the page of index floor(offset / pageSize),
\* counting pages from 0 (the API numbers them from 1, so it is asked for as
\* page floor(offset / pageSize) + 1); it is the page that holds the record
\* at position offset.
C6_FirstPage ==
    (connector = "kitsune" /\ mode = "fetch" /\ requests # <<>>) =>
        /\ requests[1] - 1 = args.offset \div QUESTIONS_PER_PAGE
        /\ args.offset < src.total =>
              \E i \in DOMAIN PageResults(src.total, requests[1]) :
                  PageResults(src.total, requests[1])[i].id = args.offset

\* offset 25: the first request is for the second page
C6_Witness ==
    /\ connector = "kitsune" /\ mode = "fetch" /\ requests # <<>>
    /\ args.offset = MidOffset /\ requests[1] = 2

\* C7 as stated: the first item yielded is the record at position offset.
C7_ExactRecord ==
    (connector = "kitsune" /\ mode = "fetch" /\ yielded # <<>>) =>
        yielded[1].data.id = args.offset

\* C7 amended: fetch(offset) resumes at the page holding position offset
\* and yields it from its first record: the first item yielded is the
\* record at position floor(offset / pageSize) * pageSize, and the record at
\* position offset comes after the offset mod pageSize records before it.
C7_PageStart ==
    (connector = "kitsune" /\ mode = "fetch" /\ yielded # <<>>) =>
        /\ yielded[1].data.id =
              (args.offset \div QUESTIONS_PER_PAGE) * QUESTIONS_PER_PAGE
        /\ Len(yielded) > args.offset % QUESTIONS_PER_PAGE =>
              yielded[(args.offset % QUESTIONS_PER_PAGE) + 1].data.id = args.offset

\* offset 25: the first item is record 20, record 25 is the sixth
C7_Witness ==
    /\ connector = "kitsune" /\ mode = "fetch" /\ args.offset = MidOffset
    /\ Len(yielded) > LastPageLen
    /\ yielded[1].data.id = QUESTIONS_PER_PAGE
    /\ yielded[LastPageLen + 1].data.id = MidOffset

\* C8: when the source has a record at position offset, a complete
\* fetch(offset) yields exactly offset mod pageSize items from before that
\* position (fewer than a page) and every record from position offset on,
\* each once.
C8_PageAligned ==
    (CompleteFetch /\ args.offset < src.total) =>
        /\ Cardinality({i \in 1..Len(yielded) : yielded[i].data.id < args.offset})
              = args.offset % QUESTIONS_PER_PAGE
        /\ args.offset % QUESTIONS_PER_PAGE < QUESTIONS_PER_PAGE
        /\ \A k \in args.offset..(src.total - 1) :
              Cardinality({i \in 1..Len(yielded) : yielded[i].data.id = k}) = 1

\* offset 25 on a longer source: 5 items from before position 25
C8_Witness ==
    /\ CompleteFetch /\ args.offset = MidOffset /\ src.total > MidOffset
    /\ Cardinality({i \in 1..Len(yielded) : yielded[i].data.id < args.offset})
          = LastPageLen

\* the requests so far follow the next indicators of the pages received
FollowsNext ==
    \A i \in 1..(Len(requests) - 1) : requests[i + 1] = src.nxt[requests[i]]

\* pagination is over exactly when the last page received has no next
\* indicator, and no page before it lacked one
EndsAtFirstEmpty ==
    /\ pc = "done" =>
          /\ requests # <<>>
          /\ src.nxt[requests[Len(requests)]] = 0
    /\ \A i \in 1..(Len(requests) - 1) : src.nxt[requests[i]] # 0
    /\ (pc = "k_request" /\ requests # <<>>) =>
          src.nxt[requests[Len(requests)]] # 0

\* C9: in a Kitsune fetch every request after the first asks for the page
\* the previous page's next indicator names; pagination stops right after
\* the first page without one, with no further request; and when the chain
\* of next indicators from the first page is finite the sequence ends.
C9_FollowsNextUntilEmpty ==
    /\ []((connector = "kitsune" /\ mode = "fetch") =>
            (FollowsNext /\ EndsAtFirstEmpty))
    /\ [][pc = "done" => requests' = requests \/ runs' # runs]_vars
    /\ (pc = "start" /\ ChainEnds(src.nxt, FirstPage(args.offset), MaxPages))
          ~> (pc \in {"done", "failed"})

\* the indicators led from page 1 to page 3 and pagination ended there
C9_Witness ==
    /\ connector = "kitsune" /\ mode = "fetch" /\ pc = "done"
    /\ requests = <<1, 3>>

\* a page of this Kitsune fetch arrived without one of its keys and the
\* fetch is over
MalformedPage ==
    /\ connector = "kitsune" /\ mode = "fetch"
    /\ raw_questions.missing # {}
    /\ pc \in {"failed", "done", "idle"} /\ error # "IOError"

\* C10: a page that lacks 'count', 'results' or 'next' makes the fetch fail
\* with ParseError.
C10_ParseErrorOnMalformed ==
    MalformedPage => error = "ParseError"

----
\* fetch_from_cache() was called on a backend built without a cache and its
\* first pull has been made
ReplayWithoutCache ==
    mode = "fetch_from_cache" /\ ~cache /\ pc # "start"

\* C11: for Hello, Kitsune and MozillaClub, fetch_from_cache() on a backend
\* built without a cache fails with CacheError at its first pull: no item
\* was produced, no stored page was read and the source was not asked.
C11_CacheErrorBeforeItems ==
    ReplayWithoutCache =>
        /\ pc \in {"failed", "idle"} /\ error = "CacheError"
        /\ yielded = <<>> /\ cache_pos = 0 /\ requests = <<>>
        /\ Ended => outcome = "RuntimeError"

\* --no-cache --fetch-cache while pages of an earlier run are on disk
C11_Witness ==
    /\ ReplayWithoutCache /\ Ended /\ error = "CacheError"
    /\ cache_items # <<>> /\ yielded = <<>>

----
\* C12: every fetch() begins by purging the CacheQueue: the pages a fetch()
\* has flushed are the first pages this same fetch() received, in order; the
\* cache holds what it held at the call followed by them; and once the
\* fetch has started the queue holds only the pages it received and has
\* not flushed -- whatever an earlier fetch() on the backend left queued.
C12_NoStaleFlush ==
    mode = "fetch" =>
        /\ Len(flushed) <= Len(received)
        /\ flushed = SubSeq(received, 1, Len(flushed))
        /\ cache_items = start_items \o flushed
        /\ pc # "start" =>
              cache_queue = SubSeq(received, Len(flushed) + 1, Len(received))

\* the fetch before this one left a page queued, and this one has flushed
\* a page
C12_Witness ==
    /\ mode = "fetch" /\ last.mode = "fetch" /\ cache
    /\ last.queue # <<>> /\ Len(flushed) = 1

----
\* run() has called recover() on a cache that had a backup
Recovered == recovered /\ cache_backup.exists

\* C13: after backup() and any number (zero included) of pushes and flushes,
\* recover() leaves in the RawCache exactly the contents it had at that
\* backup(): the pages flushed since are gone, the pages stored before are
\* all there, in order.
C13_RecoverRestoresBackup ==
    /\ (cache /\ cache_backup.exists /\ mode # "none") =>
          cache_backup.items = start_items
    /\ Recovered => cache_items = start_items

\* a second run on a cache that held pages: one more page was flushed, the
\* run failed, recover() took the page out again
C13_Witness ==
    /\ Recovered /\ Ended /\ start_items # <<>> /\ flushed # <<>>
    /\ cache_items = start_items

----
\* what identifies the items of one stored page, in the page's order: the
\* positions of its questions, the number of its hello, the page itself
PageKeys(conn, raw) ==
    CASE conn = "kitsune" ->
            [i \in 1..Len(PageResults(src.total, raw.page)) |->
                (raw.page - 1) * QUESTIONS_PER_PAGE + i - 1]
      [] conn = "hello" -> <<raw.hello>>
      [] OTHER -> <<raw>>

\* the items of the stored pages, page after page in flush order
RECURSIVE FlushOrder(_, _)
FlushOrder(conn, pages) ==
    IF pages = <<>> THEN <<>>
    ELSE PageKeys(conn, Head(pages)) \o FlushOrder(conn, Tail(pages))

\* the same identification, of the envelopes yielded
Keys(conn, envelopes) ==
    [i \in 1..Len(envelopes) |->
        CASE conn = "kitsune" -> envelopes[i].data.id
          [] conn = "hello" -> envelopes[i].data.message[2]
          [] OTHER -> envelopes[i].data]

----
\* a Kitsune fetch(a) has asked for its first page
FirstPulled ==
    connector = "kitsune" /\ mode = "fetch" /\ requests # <<>>

\* the start of the page that holds position a
PageStart(a) == (a \div QUESTIONS_PER_PAGE) * QUESTIONS_PER_PAGE

\* C15 as stated: for offsets a >= b >= 0 with a - b < pageSize, fetch(b)
\* first pulls the page fetch(a) first pulls (the first page of fetch(b) is
\* what get_questions computes for b).
C15_AnyDecreaseBelowPageSize ==
    FirstPulled =>
        \A b \in 0..args.offset :
            args.offset - b < QUESTIONS_PER_PAGE =>
                FirstPage(b) = requests[1]

\* C15 amended: for offsets a >= b >= 0 with a - b < pageSize, fetch(b)
\* first pulls the page fetch(a) first pulls exactly when b is not below
\* the start of that page, i.e. when a - b <= a mod pageSize; a larger
\* decrease (still below pageSize) makes the first page the one before.
C15_DecreaseWithinPage ==
    FirstPulled =>
        \A b \in 0..args.offset :
            args.offset - b < QUESTIONS_PER_PAGE =>
                /\ b >= PageStart(args.offset) => FirstPage(b) = requests[1]
                /\ b < PageStart(args.offset) => FirstPage(b) = requests[1] - 1

\* fetch(45) first pulls page 3; so does fetch(40), while fetch(39), six
\* less than 45, first pulls page 2
C15_Witness ==
    /\ FirstPulled /\ args.offset = 2 * QUESTIONS_PER_PAGE + LastPageLen
    /\ requests[1] = 3
    /\ FirstPage(2 * QUESTIONS_PER_PAGE) = 3
    /\ FirstPage(2 * QUESTIONS_PER_PAGE - 1) = 2

----
\* the file the backend reads has both keys
FileLoaded ==
    /\ connector = "sortinghat" /\ mode = "fetch"
    /\ backend.url = src.file.path /\ src.file.missing = {}

\* the entry of the file's uidentities map an envelope was made from
EntryOf(envelope) ==
    {i \in DOMAIN src.file.uidentities :
        src.file.uidentities[i].value.uuid = envelope.data.uuid}

\* C16: SortingHat.fetch() yields one item per entry of the file's
\* 'uidentities' map: every item yielded is the value of an entry, with
\* 'updated' set to the file's 'time' and its other fields as in the file,
\* no entry is yielded twice, and at the normal end of the fetch there are
\* as many items as entries; the fetch fails only if its consumer does.
C16_OneItemPerEntry ==
    FileLoaded =>
        /\ \A i \in DOMAIN yielded :
              /\ EntryOf(yielded[i]) # {}
              /\ \A e \in EntryOf(yielded[i]) :
                    /\ yielded[i].data.updated = src.file.time
                    /\ DOMAIN yielded[i].data =
                          DOMAIN src.file.uidentities[e].value \cup {"updated"}
                    /\ \A f \in DOMAIN src.file.uidentities[e].value \ {"updated"} :
                          yielded[i].data[f] = src.file.uidentities[e].value[f]
              /\ \A j \in DOMAIN yielded :
                    i # j => yielded[i].data.uuid # yielded[j].data.uuid
        /\ pc = "done" => Len(yielded) = Len(src.file.uidentities)
        /\ error \in {"none", "IOError"}

\* a complete fetch of a file with two entries, one of which came with an
\* 'updated' of its own
C16_Witness ==
    /\ FileLoaded /\ pc = "done" /\ Len(yielded) = 2
    /\ \E i \in DOMAIN src.file.uidentities :
          "updated" \in DOMAIN src.file.uidentities[i].value
    /\ \A i \in DOMAIN yielded : yielded[i].data.updated = src.file.time

----
\* a SortingHat backend object exists
Built == connector = "sortinghat" /\ pc # "idle"

\* the attributes a backend built with url u and tag t should have
Attributes(u, t) ==
    [url |-> u, origin |-> u,
     tag |-> IF t \in {PyNone, PyStr("")} THEN u ELSE t.s]

\* C17: a SortingHat backend built with url u and tag t has url = u and
\* origin = u; its tag is t when t is a non-empty string and u when t is
\* None or the empty string.  This holds when the backend is built, by a
\* SortingHatCommand from its command line or by a caller, and for as long
\* as the backend is used.
C17_UrlOriginTag ==
    /\ [][\A u \in Urls, t \in Tags :
            (SHCommandInit([url |-> u, tag |-> t]) \/
             \E c \in BOOLEAN : SHNewBackend(u, t, c)) =>
                backend' = Attributes(u, t)]_vars
    /\ []((Built /\ args # NoArgs) => backend = Attributes(args.url, args.tag))
    /\ [][(Built /\ pc' # "idle" /\ pc' # "created") => backend' = backend]_vars

\* a second command, given the empty tag: the tag is the url of the file
C17_Witness ==
    /\ Built /\ args # NoArgs /\ args.tag = PyStr("")
    /\ backend.tag = FilePath /\ backend.origin = FilePath
    /\ runs = 2

----
----
\* C19 as stated: two envelopes made from the same DomainItem by the same
\* connector are identical in every field (the timestamp, which is not
\* modelled, apart), the 'offset' of Kitsune included.
C19_SameItemSameEnvelope ==
    \A i, j \in DOMAIN yielded :
        yielded[i].data = yielded[j].data => yielded[i] = yielded[j]

\* C19 amended: two envelopes made from the same DomainItem by the same
\* connector are identical in uuid, updated_on, category and data; the
\* 'offset' of Kitsune is the position of the envelope in the sequence, so
\* the offsets of two envelopes differ by the distance between them.
C19_SameItemSameCore ==
    \A i, j \in DOMAIN yielded :
        /\ yielded[i].data = yielded[j].data =>
              EnvelopeCore(yielded[i]) = EnvelopeCore(yielded[j])
        /\ yielded[j].offset - yielded[i].offset = j - i

\* the source served a question twice in one fetch: two envelopes of it,
\* alike but for the offset
C19_Witness ==
    \E i, j \in DOMAIN yielded :
        /\ i < j /\ yielded[i].data = yielded[j].data
        /\ EnvelopeCore(yielded[i]) = EnvelopeCore(yielded[j])
        /\ yielded[i].offset # yielded[j].offset

----
\* a fetch() of a backend with a cache has come to its normal end
FetchCompleted == mode = "fetch" /\ cache /\ pc = "done"

\* C21: when fetch() of Hello, Kitsune or MozillaClub completes normally on
\* a backend with a cache, the CacheQueue is empty, the pages flushed during
\* the call are the raw pages the source delivered during the call, each
\* once and in the order received, and the cache holds what it held at the
\* call followed by them.
C21_FlushedAllReceived ==
    FetchCompleted =>
        /\ cache_queue = <<>>
        /\ flushed = received
        /\ cache_items = start_items \o received

\* a complete Kitsune fetch of three pages on a backend whose earlier
\* fetch() had left a page in the queue
C21_Witness ==
    /\ FetchCompleted /\ connector = "kitsune"
    /\ last.mode = "fetch" /\ last.queue # <<>>
    /\ Len(received) = 3 /\ Len(flushed) = 3

----
\* a Kitsune fetch() on a backend with a cache has made its first pull
KitsuneFetching ==
    connector = "kitsune" /\ mode = "fetch" /\ cache /\ pc # "start"

\* the fetch is in the middle of a page: the page was received and parsed
\* and its questions are being handed out, or the consumer failed then
MidPage ==
    \/ pc = "k_questions"
    \/ pc = "failed" /\ error = "IOError"

\* C22: during a Kitsune.fetch with a cache, the questions of every flushed
\* page have all been yielded; a page is asked for only when every page
\* received before is flushed; the CacheQueue holds at most one page, the
\* page received last; and in the middle of a page -- also when the
\* consumer fails there or pulls no more -- that page is in the queue and
\* not in the cache, while the cache holds every page received before it.
C22_FlushAfterYield ==
    KitsuneFetching =>
        /\ Len(FlushOrder("kitsune", flushed)) <= Len(yielded)
        /\ FlushOrder("kitsune", flushed) =
              SubSeq(Ids(yielded), 1, Len(FlushOrder("kitsune", flushed)))
        /\ Len(requests) <= Len(flushed) + 1
        /\ pc = "k_request" => (flushed = received /\ cache_queue = <<>>)
        /\ Len(cache_queue) <= 1
        /\ cache_queue = SubSeq(received, Len(flushed) + 1, Len(received))
        /\ cache_items = start_items \o flushed
        /\ MidPage =>
              /\ cache_queue = <<raw_questions>>
              /\ flushed = SubSeq(received, 1, Len(received) - 1)
              /\ \A i \in DOMAIN cache_items :
                    i > Len(start_items) => cache_items[i] # raw_questions

\* the consumer failed on a question of the second page: the first page is
\* in the cache, the second only in the queue
C22_Witness ==
    /\ KitsuneFetching /\ pc = "failed" /\ error = "IOError"
    /\ questions # <<>> /\ Len(yielded) > QUESTIONS_PER_PAGE
    /\ Len(flushed) = 1 /\ Len(cache_queue) = 1
    /\ cache_items = start_items \o flushed

----
\* C23: in every Command invocation, whatever its options and wherever it
\* fails, recover() is called only when the cache has a backup, so it does
\* not fail with CacheError and run() raises the RuntimeError that carries
\* the message of the originating error.
C23_RecoverOnlyWithBackup ==
    recovered =>
        /\ cache_backup.exists
        /\ Ended => outcome = "RuntimeError"

----
\* the raw page has the keys of the structural check of Kitsune.fetch
Checked(raw) == {"count", "results"} \cap raw.missing = {}

\* C24: every raw page Kitsune.fetch has flushed, and so every page of a
\* cache that only Kitsune.fetch has written, has 'count' and 'results'; the
\* page on which fetch raised ParseError is in the queue and not among the
\* flushed pages; and fetch_from_cache() over such a cache does not fail on
\* a missing 'results' key.
C24_FlushedPagesChecked ==
    connector = "kitsune" =>
        /\ \A i \in DOMAIN flushed : Checked(flushed[i])
        /\ \A i \in DOMAIN cache_items : Checked(cache_items[i])
        /\ (mode = "fetch" /\ error = "ParseError") =>
              /\ ~Checked(raw_questions)
              /\ cache_queue # <<>>
              /\ cache_queue[Len(cache_queue)] = raw_questions
              /\ \A i \in DOMAIN flushed : flushed[i] # raw_questions
        /\ mode = "fetch_from_cache" => error # "KeyError"

\* a fetch flushed its first page and raised ParseError on the second; the
\* replay that followed went through the cache to its end while the failed
\* page was still in the queue
C24_Witness ==
    /\ connector = "kitsune" /\ mode = "fetch_from_cache" /\ pc = "done"
    /\ last.mode = "fetch" /\ last.queue # <<>> /\ ~Checked(last.queue[1])
    /\ Len(cache_items) = 1 /\ Len(yielded) = QUESTIONS_PER_PAGE

----
\* C25: when the cache was populated by one completed Kitsune.fetch(offset),
\* fetch_from_cache() gives every item the 'offset' that fetch(offset) gave
\* it, whatever the offset.
C25_ReplaySameOffsets ==
    (ReplayedFetch /\ connector = "kitsune" /\ outcome = "ok") =>
        /\ Len(yielded) = Len(last.yielded)
        /\ \A i \in DOMAIN yielded :
              yielded[i].offset = last.yielded[i].offset

----
\* C26: Kitsune.fetch(offset) gives the k-th item it yields (k from 0) the
\* 'offset' floor(offset / 20) * 20 + k, which is the position of the item
\* in the source's sequence of questions (every page before the last of the
\* source holds 20 questions).
C26_StampIsPosition ==
    (connector = "kitsune" /\ mode = "fetch") =>
        \A i \in DOMAIN yielded :
            /\ yielded[i].offset =
                  (args.offset \div QUESTIONS_PER_PAGE) * QUESTIONS_PER_PAGE + (i - 1)
            /\ yielded[i].offset = yielded[i].data.id

----
\* C27: on a feed whose cells come in row-major order with the column names
\* in row 1, MozillaClub.fetch raises nothing (only its consumer can fail)
\* and ends with every cell consumed -- also without data rows and when the
\* last data row lacks its trailing columns.
C27_ConsumesAllCells ==
    (connector = "mozillaclub" /\ mode = "fetch" /\ response = "ok") =>
        /\ error \in {"none", "IOError"}
        /\ pc = "done" => cells = <<>>

----
\* the cells of row r of a sheet
CellsOfRow(sheet, r) == {i \in DOMAIN sheet : sheet[i].row = r}

\* the event of data row r: every column named in row 1, with the value of
\* the row's cell in that column, or None when the row has no such cell
EventOfRow(sheet, r) ==
    [f \in {sheet[i].t : i \in CellsOfRow(sheet, 1)} |->
        LET c  == sheet[CHOOSE i \in CellsOfRow(sheet, 1) : sheet[i].t = f].col
            at == {i \in CellsOfRow(sheet, r) : sheet[i].col = c}
        IN  IF at = {} THEN None ELSE sheet[CHOOSE i \in at : TRUE].t]

\* the events of the data rows from row r on that have both 'Date of Event'
\* and 'Club Name', in row order
RECURSIVE EventsFrom(_, _)
EventsFrom(sheet, r) ==
    IF CellsOfRow(sheet, r) = {} THEN <<>>
    ELSE (IF WrongEvent(EventOfRow(sheet, r)) THEN <<>>
          ELSE <<EventOfRow(sheet, r)>>) \o EventsFrom(sheet, r + 1)

\* the DomainItems of a sequence of envelopes
Data(envelopes) == [i \in 1..Len(envelopes) |-> envelopes[i].data]

\* C28: MozillaClub.fetch builds one event per data row, from the cells of
\* that row only and with None for the columns the row lacks, and yields in
\* row order the events that have both 'Date of Event' and 'Club Name':
\* what it has yielded is the beginning of that sequence, and all of it
\* when the fetch ends.
C28_OneEventPerRow ==
    (connector = "mozillaclub" /\ mode = "fetch") =>
        /\ Len(yielded) <= Len(EventsFrom(src.sheet, 2))
        /\ Data(yielded) = SubSeq(EventsFrom(src.sheet, 2), 1, Len(yielded))
        /\ pc = "done" => Len(yielded) = Len(EventsFrom(src.sheet, 2))

====
